---- MODULE Spec2Model ----
(***************************************************************************)
(* Wallet-connection widget (WalletConnect component, latest revision).    *)
(* One step of the model is one turn of the UI event loop: the code that   *)
(* runs between two `await`s of an async function, or one whole event      *)
(* handler.                                                                *)
(***************************************************************************)
EXTENDS Integers, Sequences, FiniteSets, Bags, TLC

\* ------------------------------------------------------------- bounds
MaxEvents == 1        \* provider events (accountsChanged/chainChanged) delivered
MaxPending == 2       \* un-awaited balance fetches in flight at once
MaxConnects == 1      \* clicks on the Connect control
MaxSends == 1         \* calls of sendTransaction
MaxSelfSends == 1     \* calls of sendEthToSelf
MaxClicks == 2        \* clicks on the Connect control, where repeated clicks matter

\* ------------------------------------------------------------- inputs
Null == "<null>"                      \* localStorage.getItem of an absent key
Accounts == {"0xa11ce", "0xb0b"}
AccountLists == {<<>>, <<"0xb0b", "0xa11ce">>}
\* what the reconnection request resolves with: the wallet now authorizes
\* another account than the one saved, or the saved one first
AuthorizedLists == {<<"0xb0b">>, <<"0xa11ce", "0xb0b">>}
ChainIdHexes == {<<"0", "x", "1">>, <<"0", "x", "2", "1", "0", "5">>}
ErrMessages == {"User rejected the request.", ""}
\* what eth_sendTransaction rejects with: an Error with or without a message,
\* or a value that is no Error
SelfSendErrors ==
    { [isError |-> TRUE, message |-> "User rejected the request."],
      [isError |-> TRUE, message |-> ""],
      [isError |-> FALSE, message |-> "User rejected the request."] }
SendErrMessages == {"The requested account and/or method has not been authorized by the user.",
                    "User rejected the request.", "insufficient funds", ""}

\* on-chain reads, as decimal digit sequences (most significant digit first)
EthWei(a) ==
    IF a = "0xa11ce" THEN <<1,5,0,0,0,0,0,0,0,0,0,0,0,0,0,0,0,0,0>>
    ELSE <<9,9,9,9,6,0,0,0,0,0,0,0,0,0,0>>
UsdcUnits(a) ==
    IF a = "0xa11ce" THEN <<1,2,3,4,5,6,7>> ELSE <<9,9,6,0,0,0>>

\* ------------------------------------------------------------- messages
MsgNoProvider == "No wallet provider found. Please install MetaMask or use a Farcaster app."
MsgReconnect == "Failed to reconnect to wallet. Please try connecting again."
MsgCheck == "Error checking wallet connection. Please try again."
MsgNoAccounts == "No accounts found. Please try again."
MsgConnect == "Failed to connect wallet. Please try again."
MsgSendNotConnected == "Please connect your wallet first"
MsgSendNoProvider == "No Ethereum provider found"
MsgSendApproveConnection == "Please approve the wallet connection request"
MsgSendApprove == "Please approve the transaction in your wallet"
MsgSendFailed == "Failed to send transaction"
MsgSelfNoProvider == "No provider found"
MsgSelfFailed == "Failed to send ETH"

\* ------------------------------------------------------------- pure helpers
DigitChar == <<"0", "1", "2", "3", "4", "5", "6", "7", "8", "9">>

RECURSIVE DigitsToString(_)
DigitsToString(ds) ==
    IF ds = <<>> THEN "" ELSE DigitChar[ds[1] + 1] \o DigitsToString(Tail(ds))

PadLeft(ds, n) ==
    IF Len(ds) >= n THEN ds
    ELSE [i \in 1..n |-> IF i <= n - Len(ds) THEN 0 ELSE ds[i - (n - Len(ds))]]

\* ds without its leading zeros (one digit is kept)
StripZeros(ds) ==
    LET nz == {k \in 1..Len(ds) : ds[k] # 0}
    IN  IF ds = <<>> THEN <<>>
        ELSE IF nz = {} THEN <<0>>
        ELSE SubSeq(ds, CHOOSE k \in nz : \A m \in nz : k <= m, Len(ds))

\* F applied to the value of e, and to the values of e1 and e2: the operands
\* are evaluated once, before F uses them
With(e, F(_)) == CHOOSE r \in {F(v) : v \in {e}} : TRUE
With2(e1, e2, F(_, _)) == CHOOSE r \in {F(u, v) : u \in {e1}, v \in {e2}} : TRUE

\* ---- non-negative integers of any size, as decimal digit sequences
Zeros(n) == [i \in 1..n |-> 0]

\* the n-th digit from the right
Dig(a, n) == IF n <= Len(a) THEN a[Len(a) + 1 - n] ELSE 0

\* s holds digit sums from the right: a carry enters position n when a lower
\* position overflows and every position between passes it on
Carry(s, n) ==
    \E p \in 1..(n - 1) : s[p] >= 10 /\ \A m \in (p + 1)..(n - 1) : s[m] = 9

Add(x, y) ==
    With2(x, y, LAMBDA a, b :
        LET L == (IF Len(a) > Len(b) THEN Len(a) ELSE Len(b)) + 1
        IN  With([p \in 1..L |-> Dig(a, p) + Dig(b, p)] \o <<>>, LAMBDA s :
                StripZeros([k \in 1..L |->
                    (s[L + 1 - k] + (IF Carry(s, L + 1 - k) THEN 1 ELSE 0)) % 10])))

\* s holds digit differences from the right: position n is borrowed from
Borrow(s, n) ==
    \E p \in 1..(n - 1) : s[p] < 0 /\ \A m \in (p + 1)..(n - 1) : s[m] = 0

\* x - y, for x >= y
Sub(x, y) ==
    With2(x, y, LAMBDA a, b :
        With([p \in 1..Len(a) |-> Dig(a, p) - Dig(b, p)] \o <<>>, LAMBDA s :
            StripZeros([k \in 1..Len(a) |->
                (s[Len(a) + 1 - k]
                    - (IF Borrow(s, Len(a) + 1 - k) THEN 1 ELSE 0) + 10) % 10])))

\* x < y, for x and y without leading zeros
Less(x, y) ==
    With2(x, y, LAMBDA a, b :
        \/ Len(a) < Len(b)
        \/ /\ Len(a) = Len(b)
           /\ \E k \in 1..Len(a) : a[k] < b[k] /\ \A m \in 1..(k - 1) : a[m] = b[m])

\* x * n for 0 <= n <= 2^20: each digit's product has at most seven digits,
\* and the products' j-th digits make up a number of their own
Scale(x, n) ==
    With2(x, n, LAMBDA a, m :
        LET part(j) == StripZeros([k \in 1..Len(a) |-> ((a[k] * m) \div (10 ^ j)) % 10]
                                  \o Zeros(j))
        IN  Add(Add(Add(part(0), part(1)), Add(part(2), part(3))),
                Add(Add(part(4), part(5)), part(6))))

\* a * 2^k
RECURSIVE Shl(_, _)
Shl(a, k) ==
    IF k <= 20 THEN Scale(a, 2 ^ k) ELSE Scale(Shl(a, k - 20), 2 ^ 20)

\* how often b fits into x, and what is left; x < 10 * b, and ms holds
\* b, 2b, .. 9b
Fit(x, ms) ==
    With(x, LAMBDA r :
        With(Cardinality({m \in 1..9 : ~Less(r, ms[m])}), LAMBDA k :
            [q |-> k, r |-> IF k = 0 THEN r ELSE Sub(r, ms[k])]))

\* long division of the first n digits of a by b = ms[1]: fewer digits than
\* b has are a remainder without a quotient digit
RECURSIVE DivAt(_, _, _)
DivAt(a, ms, n) ==
    IF n < Len(ms[1]) THEN [q |-> <<>>, r |-> StripZeros(SubSeq(a, 1, n))]
    ELSE With(DivAt(a, ms, n - 1), LAMBDA p :
            IF p.r = <<0>> /\ a[n] = 0 THEN [q |-> p.q \o <<0>>, r |-> <<0>>]
            ELSE With(Fit(StripZeros(p.r \o <<a[n]>>), ms), LAMBDA f :
                    [q |-> p.q \o <<f.q>>, r |-> f.r]))

\* floor(x / y) and x mod y, for y > 0
DivMod(x, y) ==
    With2(x, y, LAMBDA a, b :
        With([m \in 1..9 |-> Scale(b, m)] \o <<>>, LAMBDA ms :
            With(DivAt(a, ms, Len(a)), LAMBDA d :
                [q |-> IF d.q = <<>> THEN <<0>> ELSE StripZeros(d.q),
                 r |-> IF d.r = <<>> THEN <<0>> ELSE d.r])))

\* ---- IEEE 754 binary64 values, as num / den with den a power of two
\* least i with x * 2^i >= y. The search starts at s: when y has n + 1
\* digits more than x, x * 2^(3n) < x * 10^n < y; it ends before four
\* doublings for each digit of y, as 2^4 > 10
ShiftsUp(x, y) ==
    With2(x, y, LAMBDA a, lim :
        LET n == Len(lim) - Len(a) - 1
            s == IF n > 0 THEN 3 * n ELSE 0
        IN  With(Shl(a, s), LAMBDA base :
                s + CHOOSE t \in 0..(4 * Len(lim) + 1) :
                        /\ ~Less(Shl(base, t), lim)
                        /\ (t = 0 \/ Less(Shl(base, t - 1), lim))))

\* least j with x < y * 2^j; the search starts and ends as in ShiftsUp
ShiftsDown(x, y) ==
    With2(x, y, LAMBDA a, lim :
        LET n == Len(a) - Len(lim) - 1
            s == IF n > 0 THEN 3 * n ELSE 0
        IN  With(Shl(lim, s), LAMBDA base :
                s + CHOOSE t \in 0..(4 * Len(a) + 1) :
                        /\ Less(a, Shl(base, t))
                        /\ (t = 0 \/ ~Less(a, Shl(base, t - 1)))))

\* the double nearest to x / y (ties to the even significand), for y > 0 and
\* a quotient in the normal range: a 53-bit significand m scaled by 2^(j - i)
RoundToDouble(x, y) ==
    With2(x, y, LAMBDA a, b :
        IF a = <<0>> THEN [num |-> <<0>>, den |-> <<1>>]
        ELSE With(ShiftsUp(a, Shl(b, 52)), LAMBDA i :
             With(Shl(a, i), LAMBDA A :
             With(ShiftsDown(A, Shl(b, 53)), LAMBDA j :
             With(Shl(b, j), LAMBDA B :
             With(DivMod(A, B), LAMBDA d :
             With(Add(d.r, d.r), LAMBDA twice :
                LET odd == d.q[Len(d.q)] % 2 = 1
                    m == IF Less(B, twice) \/ (twice = B /\ odd)
                         THEN Add(d.q, <<1>>) ELSE d.q
                IN  [num |-> Shl(m, j), den |-> Shl(<<1>>, i)])))))))

\* Number(units) / 10^decimals, for decimals <= 22 (10^decimals is then a
\* double itself)
Quotient(units, decimals) ==
    With(RoundToDouble(StripZeros(units), <<1>>), LAMBDA n :
        RoundToDouble(n.num, n.den \o Zeros(decimals)))

StripTrailingZeros(ds) ==
    LET nz == {k \in 1..Len(ds) : ds[k] # 0}
    IN  IF nz = {} THEN <<0>>
        ELSE SubSeq(ds, 1, CHOOSE k \in nz : \A m \in nz : k >= m)

RECURSIVE NatToString(_)
NatToString(n) ==
    IF n < 10 THEN DigitChar[n + 1]
    ELSE NatToString(n \div 10) \o DigitChar[(n % 10) + 1]

\* the decimal x written as d.ddde+n
ExponentForm(x) ==
    With(x, LAMBDA v :
        With(StripTrailingZeros(v), LAMBDA ds :
            DigitChar[ds[1] + 1]
            \o (IF Len(ds) > 1 THEN "." \o DigitsToString(Tail(ds)) ELSE "")
            \o "e+" \o NatToString(Len(v) - 1)))

\* the k-digit decimals next to the integer x: its first k digits followed by
\* zeros, and the next such number
Below(x, k) == SubSeq(x, 1, k) \o Zeros(Len(x) - k)
Above(x, k) == Add(Below(x, k), <<1>> \o Zeros(Len(x) - k))

\* v converts to the double x
ReadsAs(v, x) == RoundToDouble(v, <<1>>).num = x

\* Number::toString of an integer-valued double x >= 10^21: the decimal with
\* the fewest significant digits that converts back to x, the nearest to x if
\* there are two
RECURSIVE ShortestDecimal(_, _)
ShortestDecimal(x, k) ==
    IF k >= Len(x) THEN x
    ELSE With2(Below(x, k), Above(x, k), LAMBDA lo, hi :
         With2(ReadsAs(lo, x), ReadsAs(hi, x), LAMBDA isLo, isHi :
            IF isLo /\ isHi
            THEN (IF Less(Sub(hi, x), Sub(x, lo)) THEN hi
                  ELSE IF Less(Sub(x, lo), Sub(hi, x)) THEN lo
                  ELSE IF lo[k] % 2 = 0 THEN lo ELSE hi)
            ELSE IF isLo THEN lo
            ELSE IF isHi THEN hi
            ELSE ShortestDecimal(x, k + 1)))

\* a plausible slip: the digits past the last kept one are dropped
toFixedTruncating(units, decimals, frac) ==
    LET p == PadLeft(units, decimals + 1)
        kept == SubSeq(p, 1, Len(p) - decimals + frac)
        whole == StripZeros(SubSeq(kept, 1, Len(kept) - frac))
        part == SubSeq(kept, Len(kept) - frac + 1, Len(kept))
    IN  DigitsToString(whole) \o "." \o DigitsToString(part)

\* (Number(units) / 10^decimals).toFixed(frac), for frac >= 1: the quotient is
\* a double; below 10^21 the result is the integer n nearest to
\* quotient * 10^frac (the larger of two) written with frac fractional
\* digits, from 10^21 on it is the quotient's toString
toFixed(units, decimals, frac) ==
    With(Quotient(units, decimals), LAMBDA x :
        IF ~Less(x.num, x.den \o Zeros(21))
        THEN ExponentForm(ShortestDecimal(x.num, 1))
        ELSE With(DivMod(Add(Shl(x.num \o Zeros(frac), 1), x.den), Shl(x.den, 1)).q,
                  LAMBDA n :
                    LET p == PadLeft(n, frac + 1)
                        whole == SubSeq(p, 1, Len(p) - frac)
                        part == SubSeq(p, Len(p) - frac + 1, Len(p))
                    IN  DigitsToString(whole) \o "." \o DigitsToString(part)))

FormatEth(wei) == toFixed(wei, 18, 4)
FormatUsdc(units) == toFixed(units, 6, 2)

HexValue(c) ==
    CASE c = "0" -> 0 [] c = "1" -> 1 [] c = "2" -> 2 [] c = "3" -> 3
      [] c = "4" -> 4 [] c = "5" -> 5 [] c = "6" -> 6 [] c = "7" -> 7
      [] c = "8" -> 8 [] c = "9" -> 9 [] c = "a" -> 10 [] c = "b" -> 11
      [] c = "c" -> 12 [] c = "d" -> 13 [] c = "e" -> 14 [] c = "f" -> 15

RECURSIVE HexDigitsValue(_, _)
HexDigitsValue(cs, acc) ==
    IF cs = <<>> THEN acc ELSE HexDigitsValue(Tail(cs), acc * 16 + HexValue(cs[1]))

\* parseInt(chainIdHex, 16) on a "0x"-prefixed string of hex digits
parseInt16(cs) ==
    IF Len(cs) >= 2 /\ cs[1] = "0" /\ cs[2] = "x"
    THEN HexDigitsValue(SubSeq(cs, 3, Len(cs)), 0)
    ELSE HexDigitsValue(cs, 0)

\* ------------------------------------------------------------- state
VARIABLES
    address, chainId, isConnected, isConnecting, error, ethBalance, usdcBalance,
    localStorage,   \* the persisted record: keys walletConnected, walletAddress
    ambient,        \* what the host/browser globals currently offer
    check,          \* the mount-time checkExistingConnection call
    connect,        \* the connectWallet call
    setup,          \* setTimeout(setupEventListeners, 1000)
    listeners,      \* the provider the two handlers are subscribed on
    send,           \* the sendTransaction call
    pending,        \* bag of un-awaited fetchEthBalance/fetchUsdcBalance calls
    nEvents,        \* provider events delivered so far
    lastEvent,      \* the latest provider event
    teardown,       \* the provider the cleanup callback found, once it has run
    isSending,      \* the isSending signal
    sendEth         \* the sendEthToSelf call

session == <<address, chainId, isConnected, isConnecting, error, ethBalance, usdcBalance>>
vars == <<address, chainId, isConnected, isConnecting, error, ethBalance, usdcBalance,
          localStorage, ambient, check, connect, send, setup, listeners, pending,
          nEvents, lastEvent, teardown,
                   isSending, sendEth>>

\* ------------------------------------------------------------- provider resolver
\* (window as any).ethereum?.providers || []
injectedProviders(amb) == IF amb.windowEthereum THEN amb.providers ELSE 0

\* a plausible slip: the browser provider is tried before the host frame
getProviderBrowserFirst(amb) ==
    IF amb.windowEthereum THEN "browser"
    ELSE IF amb.frameSdk THEN "frame"
    ELSE IF injectedProviders(amb) > 0 THEN "injected"
    ELSE "none"

getProvider(amb) ==
    IF amb.frameSdk THEN "frame"
    ELSE IF amb.windowEthereum THEN "browser"
    ELSE IF injectedProviders(amb) > 0 THEN "injected"
    ELSE "none"

\* ------------------------------------------------------------- persisted record
saveConnectionState(addr) == [walletConnected |-> "true", walletAddress |-> addr]

\* a plausible slip: only the flag is removed
clearConnectedOnly == [localStorage EXCEPT !.walletConnected = Null]

clearConnectionState == [walletConnected |-> Null, walletAddress |-> Null]

\* ------------------------------------------------------------- initial state
\* a page without a wallet, with a browser wallet, or embedded in the host
\* next to a browser wallet
Ambients ==
    { [frameSdk |-> FALSE, frameEthereum |-> FALSE, windowEthereum |-> FALSE, providers |-> 0],
      [frameSdk |-> FALSE, frameEthereum |-> FALSE, windowEthereum |-> TRUE, providers |-> 0],
      [frameSdk |-> TRUE, frameEthereum |-> TRUE, windowEthereum |-> TRUE, providers |-> 0] }

StoredRecords ==
    { [walletConnected |-> Null, walletAddress |-> Null],
      [walletConnected |-> "true", walletAddress |-> "0xa11ce"],
      [walletConnected |-> "true", walletAddress |-> Null],
      [walletConnected |-> Null, walletAddress |-> "0xb0b"] }

\* pc and the locals wasConnected, savedAddress; what the call has done so far:
\* the branch taken, the eth_accounts result, the account adopted, the requests
\* and fetches issued, whether one of its requests rejected, the first account
\* of the list the reconnection request resolved with
checkIdle ==
    [pc |-> "unmounted", wasConnected |-> FALSE, savedAddress |-> Null,
     branch |-> "none", accounts |-> <<>>, addr |-> "", log |-> <<>>,
     rejected |-> FALSE, reported |-> ""]

\* pc; what the latest call has done: the account adopted, the exit path, the
\* writes of isConnecting = false, the requests and fetches issued; whether it
\* started during the reconnection request of the mount-time check, or with
\* nothing else in flight; runs counts the calls
connectIdle ==
    [pc |-> "idle", addr |-> "", exit |-> "none", clears |-> 0, runs |-> 0,
     overlap |-> FALSE, alone |-> FALSE, log |-> <<>>]

\* pc, the pending setTimeout, the exit path of the latest call; runs counts
\* the calls
sendEthIdle == [pc |-> "idle", timer |-> FALSE, exit |-> "none", runs |-> 0]

\* pc; what the latest call has done: the provider it took, the requests
\* issued, whether eth_accounts found accounts, the exit path, the message of
\* the rejection; runs counts the calls
sendIdle ==
    [pc |-> "idle", runs |-> 0, log |-> <<>>, found |-> "unknown", exit |-> "none",
     message |-> "", provider |-> "none"]

Init ==
    /\ address = ""
    /\ chainId = 0
    /\ isConnected = FALSE
    /\ isConnecting = FALSE
    /\ error = ""
    /\ ethBalance = ""
    /\ usdcBalance = ""
    /\ localStorage \in StoredRecords
    /\ ambient \in Ambients
    /\ check = checkIdle
    /\ connect = connectIdle
    /\ send = sendIdle
    /\ setup = "unmounted"
    /\ listeners = "none"
    /\ pending = EmptyBag
    /\ nEvents = 0
    /\ lastEvent = "none"
    /\ teardown = "none"
    /\ isSending = FALSE
    /\ sendEth = sendEthIdle

\* ------------------------------------------------------------- environment
\* the host-frame SDK, whose script the route appends on every page, finishes
\* loading after page script evaluation
SdkLoads ==
    /\ ~ambient.frameSdk
    /\ ambient' = [ambient EXCEPT !.frameSdk = TRUE]
    /\ UNCHANGED <<session, localStorage, check, connect, send, setup, listeners,
                   pending, nEvents, lastEvent, teardown,
                   isSending, sendEth>>

\* ------------------------------------------------------------- balance fetches
\* the assignment a successful read ends with
EthFormatted == [a \in Accounts |-> FormatEth(EthWei(a))]
UsdcFormatted == [a \in Accounts |-> FormatUsdc(UsdcUnits(a))]
EthStored(addr) == EthFormatted[addr]
UsdcStored(addr) == UsdcFormatted[addr]

\* a fetch up to its chain read: getProvider has been resolved once before any
\* fetch starts, so inside a fetch it returns in the same turn; without a
\* provider the fetch returns at once
Reads(amb) == getProvider(amb) # "none"

\* ------------------------------------------------------------- mount
\* a plausible slip: the persisted record is taken as proof of a connection
MountTrustsRecord ==
    /\ check.pc = "unmounted"
    /\ check' = [check EXCEPT
                    !.pc = "getProvider",
                    !.wasConnected = (localStorage.walletConnected = "true"),
                    !.savedAddress = localStorage.walletAddress]
    /\ setup' = "timer"
    /\ IF localStorage.walletConnected = "true" /\ localStorage.walletAddress # Null
       THEN address' = localStorage.walletAddress /\ isConnected' = TRUE
       ELSE UNCHANGED <<address, isConnected>>
    /\ UNCHANGED <<chainId, isConnecting, error, ethBalance, usdcBalance,
                   localStorage, ambient, connect, send, listeners, pending,
                   nEvents, lastEvent, teardown, isSending, sendEth>>

\* useVisibleTask$: checkExistingConnection() up to its first await, and
\* setTimeout(setupEventListeners, 1000)
Mount ==
    /\ check.pc = "unmounted"
    /\ check' = [check EXCEPT
                    !.pc = "getProvider",
                    !.wasConnected = (localStorage.walletConnected = "true"),
                    !.savedAddress = localStorage.walletAddress]
    /\ setup' = "timer"
    /\ UNCHANGED <<session, localStorage, ambient, connect, send, listeners, pending,
                   nEvents, lastEvent, teardown,
                   isSending, sendEth>>

\* checkExistingConnection returns: its locals are gone
CheckReturned(c, branch) ==
    [c EXCEPT !.pc = "done", !.branch = branch, !.wasConnected = FALSE,
              !.savedAddress = Null]

\* a plausible slip: the no-provider branch returns without a message
CheckGetProviderSilent ==
    /\ check.pc = "getProvider"
    /\ check' = IF getProvider(ambient) = "none"
                THEN CheckReturned(check, "noProvider")
                ELSE [check EXCEPT !.pc = "eth_accounts",
                                   !.log = Append(@, "eth_accounts")]
    /\ UNCHANGED <<session, localStorage, ambient, connect, send, setup, listeners,
                   pending, nEvents, lastEvent, teardown,
                   isSending, sendEth>>

\* `await getProvider()` returns to checkExistingConnection
CheckGetProvider ==
    /\ check.pc = "getProvider"
    /\ IF getProvider(ambient) = "none"
       THEN /\ error' = MsgNoProvider
            /\ check' = CheckReturned(check, "noProvider")
       ELSE /\ error' = error
            /\ check' = [check EXCEPT !.pc = "eth_accounts",
                                      !.log = Append(@, "eth_accounts")]
    /\ UNCHANGED <<address, chainId, isConnected, isConnecting, ethBalance,
                   usdcBalance, localStorage, ambient, connect, send, setup, listeners,
                   pending, nEvents, lastEvent, teardown,
                   isSending, sendEth>>

\* what the check does after `await fetchUsdcBalance(...)`
CheckAfterBalances(c) ==
    IF c.branch = "accounts"
    THEN [c EXCEPT !.pc = "eth_chainId", !.log = Append(@, "eth_chainId")]
    ELSE CheckReturned(c, c.branch)

\* `await fetchUsdcBalance(addr)` is reached
CheckFetchUsdc(c) ==
    IF Reads(ambient)
    THEN [c EXCEPT !.pc = "usdcRead", !.log = Append(@, "fetchUsdcBalance")]
    ELSE CheckAfterBalances([c EXCEPT !.log = Append(@, "fetchUsdcBalance")])

\* `await fetchEthBalance(addr)` is reached
CheckFetchEth(c) ==
    IF Reads(ambient)
    THEN [c EXCEPT !.pc = "ethRead", !.log = Append(@, "fetchEthBalance")]
    ELSE CheckFetchUsdc([c EXCEPT !.log = Append(@, "fetchEthBalance")])

\* a plausible slip: the last account of the list
CheckAdoptedLast(accounts) == accounts[Len(accounts)]

\* the account the check adopts from a non-empty eth_accounts result
CheckAdopted(accounts) == accounts[1]

\* a plausible slip: || for &&
ReconnectsEither(c) == c.wasConnected \/ c.savedAddress \notin {Null, ""}

\* a plausible slip: the saved address is not tested
ReconnectsFlagOnly(c) == c.wasConnected

\* wasConnected && savedAddress
Reconnects(c) == c.wasConnected /\ c.savedAddress \notin {Null, ""}

\* eth_accounts resolves
CheckAccounts(accounts) ==
    /\ check.pc = "eth_accounts"
    /\ IF Len(accounts) > 0
       THEN /\ address' = CheckAdopted(accounts)
            /\ isConnected' = TRUE
            /\ localStorage' = saveConnectionState(address')
            /\ check' = CheckFetchEth([check EXCEPT !.branch = "accounts",
                                                     !.accounts = accounts,
                                                     !.addr = CheckAdopted(accounts)])
       ELSE IF Reconnects(check)
       THEN /\ check' = [check EXCEPT !.pc = "eth_requestAccounts",
                                      !.branch = "reconnect",
                                      !.log = Append(@, "eth_requestAccounts")]
            /\ UNCHANGED <<address, isConnected, localStorage>>
       ELSE /\ check' = CheckReturned(check, "firstVisit")
            /\ UNCHANGED <<address, isConnected, localStorage>>
    /\ UNCHANGED <<chainId, isConnecting, error, ethBalance, usdcBalance, ambient,
                   connect, send, setup, listeners, pending, nEvents, lastEvent, teardown,
                   isSending, sendEth>>

\* a plausible slip: the address is adopted without the connected flag
CheckReconnectedNoFlag(accounts) ==
    /\ check.pc = "eth_requestAccounts"
    /\ address' = check.savedAddress
    /\ localStorage' = saveConnectionState(address')
    /\ check' = CheckFetchEth([check EXCEPT !.addr = check.savedAddress,
                                            !.reported = accounts[1]])
    /\ UNCHANGED <<chainId, isConnected, isConnecting, error, ethBalance,
                   usdcBalance, ambient, connect, send, setup, listeners, pending,
                   nEvents, lastEvent, teardown,
                   isSending, sendEth>>

\* a plausible slip: the balances are not fetched after reconnecting
CheckReconnectedNoFetch(accounts) ==
    /\ check.pc = "eth_requestAccounts"
    /\ address' = check.savedAddress
    /\ isConnected' = TRUE
    /\ localStorage' = saveConnectionState(address')
    /\ check' = CheckReturned([check EXCEPT !.addr = check.savedAddress,
                                            !.reported = accounts[1]], "reconnect")
    /\ UNCHANGED <<chainId, isConnecting, error, ethBalance, usdcBalance, ambient,
                   connect, send, setup, listeners, pending, nEvents, lastEvent,
                   teardown,
                   isSending, sendEth>>

\* the interactive reconnection request resolves
CheckReconnected(accounts) ==
    /\ check.pc = "eth_requestAccounts"
    /\ address' = check.savedAddress
    /\ isConnected' = TRUE
    /\ localStorage' = saveConnectionState(address')
    /\ check' = CheckFetchEth([check EXCEPT !.addr = check.savedAddress,
                                            !.reported = accounts[1]])
    /\ UNCHANGED <<chainId, isConnecting, error, ethBalance, usdcBalance, ambient,
                   connect, send, setup, listeners, pending, nEvents, lastEvent, teardown,
                   isSending, sendEth>>

\* a plausible slip: the inner catch leaves the persisted record
CheckReconnectFailedKeepsRecord ==
    /\ check.pc = "eth_requestAccounts"
    /\ error' = MsgReconnect
    /\ check' = [CheckReturned(check, "reconnectFailed") EXCEPT !.rejected = TRUE]
    /\ UNCHANGED <<address, chainId, isConnected, isConnecting, ethBalance,
                   usdcBalance, localStorage, ambient, connect, send, setup,
                   listeners, pending, nEvents, lastEvent, teardown,
                   isSending, sendEth>>

\* the interactive reconnection request rejects: inner catch
CheckReconnectFailed ==
    /\ check.pc = "eth_requestAccounts"
    /\ error' = MsgReconnect
    /\ localStorage' = clearConnectionState
    /\ check' = [CheckReturned(check, "reconnectFailed") EXCEPT !.rejected = TRUE]
    /\ UNCHANGED <<address, chainId, isConnected, isConnecting, ethBalance,
                   usdcBalance, ambient, connect, send, setup, listeners, pending,
                   nEvents, lastEvent, teardown,
                   isSending, sendEth>>

\* eth_accounts or eth_chainId rejects: outer catch
CheckRejected ==
    /\ check.pc \in {"eth_accounts", "eth_chainId"}
    /\ error' = MsgCheck
    /\ check' = [CheckReturned(check, IF check.pc = "eth_accounts" THEN "failed"
                                       ELSE check.branch) EXCEPT !.rejected = TRUE]
    /\ UNCHANGED <<address, chainId, isConnected, isConnecting, ethBalance,
                   usdcBalance, localStorage, ambient, connect, send, setup, listeners,
                   pending, nEvents, lastEvent, teardown,
                   isSending, sendEth>>

\* publicClient.getBalance settles inside the awaited fetchEthBalance
CheckEthRead(ok) ==
    /\ check.pc = "ethRead"
    /\ ethBalance' = IF ok THEN EthStored(check.addr) ELSE ethBalance
    /\ check' = CheckFetchUsdc(check)
    /\ UNCHANGED <<address, chainId, isConnected, isConnecting, error, usdcBalance,
                   localStorage, ambient, connect, send, setup, listeners, pending,
                   nEvents, lastEvent, teardown,
                   isSending, sendEth>>

\* publicClient.readContract settles inside the awaited fetchUsdcBalance
CheckUsdcRead(ok) ==
    /\ check.pc = "usdcRead"
    /\ usdcBalance' = IF ok THEN UsdcStored(check.addr) ELSE usdcBalance
    /\ check' = CheckAfterBalances(check)
    /\ UNCHANGED <<address, chainId, isConnected, isConnecting, error, ethBalance,
                   localStorage, ambient, connect, send, setup, listeners, pending,
                   nEvents, lastEvent, teardown,
                   isSending, sendEth>>

\* eth_chainId resolves; hex = <<>> is a falsy result
CheckChainId(hex) ==
    /\ check.pc = "eth_chainId"
    /\ chainId' = IF hex # <<>> THEN parseInt16(hex) ELSE chainId
    /\ check' = CheckReturned(check, check.branch)
    /\ UNCHANGED <<address, isConnected, isConnecting, error, ethBalance, usdcBalance,
                   localStorage, ambient, connect, send, setup, listeners, pending,
                   nEvents, lastEvent, teardown,
                   isSending, sendEth>>

checkExistingConnection ==
    \/ CheckGetProvider
    \/ \E accounts \in AccountLists : CheckAccounts(accounts)
    \/ \E accounts \in AuthorizedLists : CheckReconnected(accounts)
    \/ CheckReconnectFailed
    \/ CheckRejected
    \/ \E ok \in BOOLEAN : CheckEthRead(ok)
    \/ \E ok \in BOOLEAN : CheckUsdcRead(ok)
    \/ \E hex \in ChainIdHexes \cup {<<>>} : CheckChainId(hex)

\* ------------------------------------------------------------- connectWallet
\* the Connect control is rendered while !isConnected, disabled while isConnecting
ConnectOffered == ~isConnected /\ ~isConnecting

\* a plausible slip: no finally block
ConnectFinallySkipped(c, exit) ==
    /\ isConnecting' = isConnecting
    /\ connect' = [c EXCEPT !.pc = "idle", !.exit = exit]

\* the finally block
ConnectFinally(c, exit) ==
    /\ isConnecting' = FALSE
    /\ connect' = [c EXCEPT !.pc = "idle", !.clears = @ + 1, !.exit = exit]

\* a plausible slip: the control is not disabled while isConnecting
ConnectClickNotDisabled(limit) ==
    /\ check.pc # "unmounted"
    /\ teardown = "none"
    /\ ~isConnected
    /\ connect.runs < limit
    /\ isConnecting' = TRUE
    /\ error' = ""
    /\ connect' = [connect EXCEPT !.pc = "getProvider", !.addr = "", !.exit = "none",
                                  !.clears = 0, !.runs = @ + 1, !.log = <<>>,
                                  !.overlap = (check.pc = "eth_requestAccounts"),
                                  !.alone = (check.pc = "done" /\ pending = EmptyBag)]
    /\ UNCHANGED <<address, chainId, isConnected, ethBalance, usdcBalance,
                   localStorage, ambient, check, send, setup, listeners, pending,
                   nEvents, lastEvent, teardown,
                   isSending, sendEth>>

\* click: connectWallet up to its first await
ConnectClick(limit) ==
    /\ check.pc # "unmounted"
    /\ teardown = "none"
    /\ ConnectOffered
    /\ connect.runs < limit
    /\ isConnecting' = TRUE
    /\ error' = ""
    /\ connect' = [connect EXCEPT !.pc = "getProvider", !.addr = "", !.exit = "none",
                                  !.clears = 0, !.runs = @ + 1, !.log = <<>>,
                                  !.overlap = (check.pc = "eth_requestAccounts"),
                                  !.alone = (check.pc = "done" /\ pending = EmptyBag)]
    /\ UNCHANGED <<address, chainId, isConnected, ethBalance, usdcBalance,
                   localStorage, ambient, check, send, setup, listeners, pending,
                   nEvents, lastEvent, teardown,
                   isSending, sendEth>>

\* a plausible change: the no-provider branch leaves the clearing to finally
ConnectGetProviderOneClear ==
    /\ connect.pc = "getProvider"
    /\ IF getProvider(ambient) = "none"
       THEN /\ error' = MsgNoProvider
            /\ ConnectFinally(connect, "noProvider")
       ELSE /\ connect' = [connect EXCEPT !.pc = "eth_requestAccounts",
                                          !.log = Append(@, "eth_requestAccounts")]
            /\ UNCHANGED <<error, isConnecting>>
    /\ UNCHANGED <<address, chainId, isConnected, ethBalance, usdcBalance,
                   localStorage, ambient, check, send, setup, listeners, pending,
                   nEvents, lastEvent, teardown,
                   isSending, sendEth>>

\* a plausible slip: the request is issued without a provider
ConnectGetProviderUnguarded ==
    /\ connect.pc = "getProvider"
    /\ connect' = [connect EXCEPT !.pc = "eth_requestAccounts",
                                  !.log = Append(@, "eth_requestAccounts")]
    /\ UNCHANGED <<session, localStorage, ambient, check, send, setup, listeners,
                   pending, nEvents, lastEvent, teardown,
                   isSending, sendEth>>

\* `await getProvider()` returns to connectWallet
ConnectGetProvider ==
    /\ connect.pc = "getProvider"
    /\ IF getProvider(ambient) = "none"
       THEN /\ error' = MsgNoProvider
            \* isConnecting.value = false, return, and then the finally block
            /\ ConnectFinally([connect EXCEPT !.clears = @ + 1], "noProvider")
       ELSE /\ connect' = [connect EXCEPT !.pc = "eth_requestAccounts",
                                          !.log = Append(@, "eth_requestAccounts")]
            /\ UNCHANGED <<error, isConnecting>>
    /\ UNCHANGED <<address, chainId, isConnected, ethBalance, usdcBalance,
                   localStorage, ambient, check, send, setup, listeners, pending,
                   nEvents, lastEvent, teardown,
                   isSending, sendEth>>

\* provider.request({ method: 'eth_chainId' }) is issued
ConnectRequestChainId(c) ==
    [c EXCEPT !.pc = "eth_chainId", !.log = Append(@, "eth_chainId")]

\* `await fetchUsdcBalance(connectedAddr)` is reached
ConnectFetchUsdc(c) ==
    IF Reads(ambient)
    THEN [c EXCEPT !.pc = "usdcRead", !.log = Append(@, "fetchUsdcBalance")]
    ELSE ConnectRequestChainId([c EXCEPT !.log = Append(@, "fetchUsdcBalance")])

\* `await fetchEthBalance(connectedAddr)` is reached
ConnectFetchEth(c) ==
    IF Reads(ambient)
    THEN [c EXCEPT !.pc = "ethRead", !.log = Append(@, "fetchEthBalance")]
    ELSE ConnectFetchUsdc([c EXCEPT !.log = Append(@, "fetchEthBalance")])

\* a plausible slip: the last account of the list
ConnectAccountsLast(accounts) ==
    /\ connect.pc = "eth_requestAccounts"
    /\ IF Len(accounts) > 0
       THEN /\ address' = accounts[Len(accounts)]
            /\ isConnected' = TRUE
            /\ localStorage' = saveConnectionState(address')
            /\ connect' = ConnectFetchEth([connect EXCEPT !.addr = accounts[Len(accounts)]])
            /\ UNCHANGED <<error, isConnecting>>
       ELSE /\ error' = MsgNoAccounts
            /\ ConnectFinally(connect, "empty")
            /\ UNCHANGED <<address, isConnected, localStorage>>
    /\ UNCHANGED <<chainId, ethBalance, usdcBalance, ambient, check, send, setup,
                   listeners, pending, nEvents, lastEvent, teardown,
                   isSending, sendEth>>

\* a plausible slip: the empty result removes the persisted record
ConnectAccountsEmptyClears(accounts) ==
    /\ connect.pc = "eth_requestAccounts"
    /\ IF Len(accounts) > 0
       THEN /\ address' = accounts[1]
            /\ isConnected' = TRUE
            /\ localStorage' = saveConnectionState(address')
            /\ connect' = ConnectFetchEth([connect EXCEPT !.addr = accounts[1]])
            /\ UNCHANGED <<error, isConnecting>>
       ELSE /\ error' = MsgNoAccounts
            /\ localStorage' = clearConnectionState
            /\ ConnectFinally(connect, "empty")
            /\ UNCHANGED <<address, isConnected>>
    /\ UNCHANGED <<chainId, ethBalance, usdcBalance, ambient, check, send, setup,
                   listeners, pending, nEvents, lastEvent, teardown,
                   isSending, sendEth>>

\* eth_requestAccounts resolves
ConnectAccounts(accounts) ==
    /\ connect.pc = "eth_requestAccounts"
    /\ IF Len(accounts) > 0
       THEN /\ address' = accounts[1]
            /\ isConnected' = TRUE
            /\ localStorage' = saveConnectionState(address')
            /\ connect' = ConnectFetchEth([connect EXCEPT !.addr = accounts[1]])
            /\ UNCHANGED <<error, isConnecting>>
       ELSE /\ error' = MsgNoAccounts
            /\ ConnectFinally(connect, "empty")
            /\ UNCHANGED <<address, isConnected, localStorage>>
    /\ UNCHANGED <<chainId, ethBalance, usdcBalance, ambient, check, send, setup,
                   listeners, pending, nEvents, lastEvent, teardown,
                   isSending, sendEth>>

\* eth_requestAccounts or eth_chainId rejects: catch, then finally
ConnectRejected(message) ==
    /\ connect.pc \in {"eth_requestAccounts", "eth_chainId"}
    /\ error' = IF message # "" THEN message ELSE MsgConnect
    /\ ConnectFinally(connect, "error")
    /\ UNCHANGED <<address, chainId, isConnected, ethBalance, usdcBalance,
                   localStorage, ambient, check, send, setup, listeners, pending,
                   nEvents, lastEvent, teardown,
                   isSending, sendEth>>

ConnectEthRead(ok) ==
    /\ connect.pc = "ethRead"
    /\ ethBalance' = IF ok THEN EthStored(connect.addr) ELSE ethBalance
    /\ connect' = ConnectFetchUsdc(connect)
    /\ UNCHANGED <<address, chainId, isConnected, isConnecting, error, usdcBalance,
                   localStorage, ambient, check, send, setup, listeners, pending,
                   nEvents, lastEvent, teardown,
                   isSending, sendEth>>

ConnectUsdcRead(ok) ==
    /\ connect.pc = "usdcRead"
    /\ usdcBalance' = IF ok THEN UsdcStored(connect.addr) ELSE usdcBalance
    /\ connect' = ConnectRequestChainId(connect)
    /\ UNCHANGED <<address, chainId, isConnected, isConnecting, error, ethBalance,
                   localStorage, ambient, check, send, setup, listeners, pending,
                   nEvents, lastEvent, teardown,
                   isSending, sendEth>>

\* eth_chainId resolves; hex = <<>> is a falsy result; then finally
ConnectChainId(hex) ==
    /\ connect.pc = "eth_chainId"
    /\ chainId' = IF hex # <<>> THEN parseInt16(hex) ELSE chainId
    /\ ConnectFinally(connect, "success")
    /\ UNCHANGED <<address, isConnected, error, ethBalance, usdcBalance,
                   localStorage, ambient, check, send, setup, listeners, pending,
                   nEvents, lastEvent, teardown,
                   isSending, sendEth>>

ConnectStart == ConnectClick(MaxConnects)

connectWallet ==
    \/ ConnectStart
    \/ ConnectGetProvider
    \/ \E accounts \in AccountLists : ConnectAccounts(accounts)
    \/ \E message \in ErrMessages : ConnectRejected(message)
    \/ \E ok \in BOOLEAN : ConnectEthRead(ok)
    \/ \E ok \in BOOLEAN : ConnectUsdcRead(ok)
    \/ \E hex \in ChainIdHexes \cup {<<>>} : ConnectChainId(hex)

\* ------------------------------------------------------------- un-awaited fetches
Fetch(kind, addr) == [kind |-> kind, addr |-> addr]

\* fetchEthBalance(addr); fetchUsdcBalance(addr), neither awaited
BothBalances(addr) ==
    IF Reads(ambient)
    THEN pending (+) SetToBag({Fetch("eth", addr), Fetch("usdc", addr)})
    ELSE pending

Room(n) == BagCardinality(pending) + n <= MaxPending

\* a plausible slip: the catch block stores a zero balance
FetchSettledFailureZero(f, ok) ==
    /\ BagIn(f, pending)
    /\ pending' = pending (-) SetToBag({f})
    /\ ok => f.addr \in Accounts
    /\ ethBalance' = IF f.kind = "eth"
                     THEN (IF ok THEN EthStored(f.addr) ELSE "0.0000") ELSE ethBalance
    /\ usdcBalance' = IF f.kind = "usdc"
                      THEN (IF ok THEN UsdcStored(f.addr) ELSE "0.00") ELSE usdcBalance
    /\ UNCHANGED <<address, chainId, isConnected, isConnecting, error,
                   localStorage, ambient, check, connect, send, setup, listeners,
                   nEvents, lastEvent, teardown,
                   isSending, sendEth>>

\* a plausible slip: the catch block resets the balance
FetchSettledFailureClears(f, ok) ==
    /\ BagIn(f, pending)
    /\ pending' = pending (-) SetToBag({f})
    /\ ok => f.addr \in Accounts
    /\ ethBalance' = IF f.kind = "eth"
                     THEN (IF ok THEN EthStored(f.addr) ELSE "") ELSE ethBalance
    /\ usdcBalance' = IF f.kind = "usdc"
                      THEN (IF ok THEN UsdcStored(f.addr) ELSE "") ELSE usdcBalance
    /\ UNCHANGED <<address, chainId, isConnected, isConnecting, error,
                   localStorage, ambient, check, connect, send, setup, listeners,
                   nEvents, lastEvent, teardown,
                   isSending, sendEth>>

\* the chain read of an un-awaited fetch settles
FetchSettled(f, ok) ==
    /\ BagIn(f, pending)
    /\ pending' = pending (-) SetToBag({f})
    /\ ok => f.addr \in Accounts      \* a read for '' throws
    /\ ethBalance' = IF ok /\ f.kind = "eth" THEN EthStored(f.addr) ELSE ethBalance
    /\ usdcBalance' = IF ok /\ f.kind = "usdc" THEN UsdcStored(f.addr) ELSE usdcBalance
    /\ UNCHANGED <<address, chainId, isConnected, isConnecting, error,
                   localStorage, ambient, check, connect, send, setup, listeners,
                   nEvents, lastEvent, teardown,
                   isSending, sendEth>>

fetchBalances ==
    \E f \in BagToSet(pending), ok \in BOOLEAN : FetchSettled(f, ok)

\* ------------------------------------------------------------- sendTransaction
\* window.frame?.ethereum || window.ethereum
sendProvider(amb) ==
    IF amb.frameEthereum THEN "frame.ethereum"
    ELSE IF amb.windowEthereum THEN "browser"
    ELSE "none"

\* err.message?.includes('authorized')
IncludesAuthorized(message) ==
    \E i \in 1..(Len(message) - Len("authorized") + 1) :
        SubSeq(message, i, i + Len("authorized") - 1) = "authorized"

SendReturned(exit) == [send EXCEPT !.pc = "idle", !.exit = exit]

\* a plausible slip: the connection is not tested
SendStartUnguarded ==
    /\ check.pc # "unmounted"
    /\ send.pc = "idle"
    /\ send.runs < MaxSends
    /\ IF sendProvider(ambient) = "none"
       THEN /\ error' = MsgSendNoProvider
            /\ send' = [sendIdle EXCEPT !.runs = send.runs + 1, !.exit = "noProvider"]
       ELSE /\ error' = error
            /\ send' = [sendIdle EXCEPT !.pc = "eth_accounts", !.runs = send.runs + 1,
                                        !.log = <<"eth_accounts">>,
                                        !.provider = sendProvider(ambient)]
    /\ UNCHANGED <<address, chainId, isConnected, isConnecting, ethBalance,
                   usdcBalance, localStorage, ambient, check, connect, setup,
                   listeners, pending, nEvents, lastEvent, teardown,
                   isSending, sendEth>>

\* sendTransaction up to its first await
SendStart ==
    /\ check.pc # "unmounted"
    /\ send.pc = "idle"
    /\ send.runs < MaxSends
    /\ IF ~isConnected
       THEN /\ error' = MsgSendNotConnected
            /\ send' = [sendIdle EXCEPT !.runs = send.runs + 1, !.exit = "notConnected"]
       ELSE IF sendProvider(ambient) = "none"
       THEN /\ error' = MsgSendNoProvider
            /\ send' = [sendIdle EXCEPT !.runs = send.runs + 1, !.exit = "noProvider"]
       ELSE /\ error' = error
            /\ send' = [sendIdle EXCEPT !.pc = "eth_accounts", !.runs = send.runs + 1,
                                        !.log = <<"eth_accounts">>,
                                        !.provider = sendProvider(ambient)]
    /\ UNCHANGED <<address, chainId, isConnected, isConnecting, ethBalance,
                   usdcBalance, localStorage, ambient, check, connect, setup,
                   listeners, pending, nEvents, lastEvent, teardown,
                   isSending, sendEth>>

\* a plausible slip: the authorization is requested whatever eth_accounts found
SendAccountsAlwaysRequests(accounts) ==
    /\ send.pc = "eth_accounts"
    /\ send' = [send EXCEPT !.found = IF Len(accounts) = 0 THEN "empty" ELSE "some",
                            !.pc = "eth_requestAccounts",
                            !.log = Append(@, "eth_requestAccounts")]
    /\ UNCHANGED <<session, localStorage, ambient, check, connect, setup,
                   listeners, pending, nEvents, lastEvent, teardown,
                   isSending, sendEth>>

\* eth_accounts resolves
SendAccounts(accounts) ==
    /\ send.pc = "eth_accounts"
    /\ send' = [send EXCEPT
                   !.found = IF Len(accounts) = 0 THEN "empty" ELSE "some",
                   !.pc = IF Len(accounts) = 0 THEN "eth_requestAccounts"
                          ELSE "writeContract",
                   !.log = Append(@, IF Len(accounts) = 0 THEN "eth_requestAccounts"
                                     ELSE "writeContract")]
    /\ UNCHANGED <<session, localStorage, ambient, check, connect, setup,
                   listeners, pending, nEvents, lastEvent, teardown,
                   isSending, sendEth>>

\* eth_requestAccounts settles
SendAuthorization(granted) ==
    /\ send.pc = "eth_requestAccounts"
    /\ error' = IF granted THEN error ELSE MsgSendApproveConnection
    /\ send' = IF granted
               THEN [send EXCEPT !.pc = "writeContract",
                                 !.log = Append(@, "writeContract")]
               ELSE SendReturned("denied")
    /\ UNCHANGED <<address, chainId, isConnected, isConnecting, ethBalance,
                   usdcBalance, localStorage, ambient, check, connect, setup,
                   listeners, pending, nEvents, lastEvent, teardown,
                   isSending, sendEth>>

\* a plausible slip: the balance is not refreshed after the transfer
SendWrittenNoRefresh ==
    /\ send.pc = "writeContract"
    /\ send' = SendReturned("sent")
    /\ UNCHANGED <<session, localStorage, ambient, check, connect, setup,
                   listeners, pending, nEvents, lastEvent, teardown,
                   isSending, sendEth>>

\* writeContract resolves: fetchUsdcBalance(address.value), not awaited
SendWritten ==
    /\ send.pc = "writeContract"
    /\ Room(1)
    /\ pending' = IF Reads(ambient)
                  THEN pending (+) SetToBag({Fetch("usdc", address)})
                  ELSE pending
    /\ send' = [SendReturned("sent") EXCEPT !.log = Append(@, "fetchUsdcBalance")]
    /\ UNCHANGED <<session, localStorage, ambient, check, connect, setup,
                   listeners, nEvents, lastEvent, teardown,
                   isSending, sendEth>>

\* eth_accounts or writeContract rejects: catch
SendRejected(message) ==
    /\ send.pc \in {"eth_accounts", "writeContract"}
    /\ error' = IF IncludesAuthorized(message) THEN MsgSendApprove
                ELSE IF message # "" THEN message ELSE MsgSendFailed
    /\ send' = [SendReturned("failed") EXCEPT !.message = message]
    /\ UNCHANGED <<address, chainId, isConnected, isConnecting, ethBalance,
                   usdcBalance, localStorage, ambient, check, connect, setup,
                   listeners, pending, nEvents, lastEvent, teardown,
                   isSending, sendEth>>

sendTransaction ==
    \/ SendStart
    \/ \E accounts \in AccountLists : SendAccounts(accounts)
    \/ \E granted \in BOOLEAN : SendAuthorization(granted)
    \/ SendWritten
    \/ \E message \in SendErrMessages : SendRejected(message)

\* ------------------------------------------------------------- sendEthToSelf
\* frameSDK?.wallet?.ethProvider || window.ethereum
selfProvider(amb) ==
    IF amb.frameSdk THEN "frame"
    ELSE IF amb.windowEthereum THEN "browser"
    ELSE "none"

\* the finally block
SelfFinally(exit) ==
    /\ isSending' = FALSE
    /\ sendEth' = [sendEth EXCEPT !.pc = "idle", !.exit = exit,
                                  !.timer = (exit = "sent")]

\* click on the send control, rendered while connected and disabled while
\* isSending: sendEthToSelf up to `await getFrameSDK()`
SelfStart ==
    /\ check.pc # "unmounted"
    /\ teardown = "none"
    /\ isConnected /\ ~isSending
    /\ ~sendEth.timer
    /\ sendEth.runs < MaxSelfSends
    /\ isSending' = TRUE
    /\ sendEth' = [sendEth EXCEPT !.pc = "getFrameSDK", !.exit = "none",
                                  !.runs = @ + 1]
    /\ UNCHANGED <<session, localStorage, ambient, check, connect, send, setup,
                   listeners, pending, nEvents, lastEvent, teardown>>

\* getFrameSDK returns: without a provider the thrown Error is caught
SelfGetFrameSDK ==
    /\ sendEth.pc = "getFrameSDK"
    /\ IF selfProvider(ambient) = "none"
       THEN /\ error' = MsgSelfNoProvider
            /\ SelfFinally("noProvider")
       ELSE /\ sendEth' = [sendEth EXCEPT !.pc = "eth_sendTransaction"]
            /\ UNCHANGED <<error, isSending>>
    /\ UNCHANGED <<address, chainId, isConnected, isConnecting, ethBalance,
                   usdcBalance, localStorage, ambient, check, connect, send, setup,
                   listeners, pending, nEvents, lastEvent, teardown>>

\* eth_sendTransaction resolves: setTimeout(..., 5000), then finally
SelfSent ==
    /\ sendEth.pc = "eth_sendTransaction"
    /\ SelfFinally("sent")
    /\ UNCHANGED <<session, localStorage, ambient, check, connect, send, setup,
                   listeners, pending, nEvents, lastEvent, teardown>>

\* eth_sendTransaction rejects: catch, then finally
SelfRejected(err) ==
    /\ sendEth.pc = "eth_sendTransaction"
    /\ error' = IF err.isError THEN err.message ELSE MsgSelfFailed
    /\ SelfFinally("failed")
    /\ UNCHANGED <<address, chainId, isConnected, isConnecting, ethBalance,
                   usdcBalance, localStorage, ambient, check, connect, send, setup,
                   listeners, pending, nEvents, lastEvent, teardown>>

\* the 5000 ms timer fires: fetchEthBalance(address.value), not awaited
SelfTimer ==
    /\ sendEth.timer
    /\ Room(1)
    /\ sendEth' = [sendEth EXCEPT !.timer = FALSE]
    /\ pending' = IF Reads(ambient)
                  THEN pending (+) SetToBag({Fetch("eth", address)})
                  ELSE pending
    /\ UNCHANGED <<session, localStorage, ambient, check, connect, send, setup,
                   listeners, nEvents, lastEvent, teardown, isSending>>

sendEthToSelf ==
    \/ SelfStart
    \/ SelfGetFrameSDK
    \/ SelfSent
    \/ \E err \in SelfSendErrors : SelfRejected(err)
    \/ SelfTimer

\* ------------------------------------------------------------- event listeners
\* the timer fires: setupEventListeners resolves the provider and subscribes
\* both handlers with provider.on(...)
setupEventListeners ==
    /\ setup = "timer"
    /\ setup' = "done"
    /\ listeners' = getProvider(ambient)
    /\ UNCHANGED <<session, localStorage, ambient, check, connect, send, pending,
                   nEvents, lastEvent, teardown,
                   isSending, sendEth>>

\* a plausible slip: the new account is not persisted
AccountsChangedNoSave(accounts) ==
    /\ listeners # "none"
    /\ nEvents < MaxEvents
    /\ nEvents' = nEvents + 1
    /\ lastEvent' = IF Len(accounts) > 0 THEN "accountsChanged" ELSE "accountsChanged:none"
    /\ IF Len(accounts) > 0
       THEN /\ Room(2)
            /\ address' = accounts[1]
            /\ isConnected' = TRUE
            /\ pending' = BothBalances(accounts[1])
            /\ UNCHANGED <<ethBalance, usdcBalance, localStorage>>
       ELSE /\ address' = ""
            /\ isConnected' = FALSE
            /\ localStorage' = clearConnectionState
            /\ ethBalance' = ""
            /\ usdcBalance' = ""
            /\ UNCHANGED pending
    /\ UNCHANGED <<chainId, isConnecting, error, ambient, check, connect, send, setup,
                   listeners, teardown,
                   isSending, sendEth>>

\* the accountsChanged handler
AccountsChanged(accounts) ==
    /\ listeners # "none"
    /\ nEvents < MaxEvents
    /\ nEvents' = nEvents + 1
    /\ lastEvent' = IF Len(accounts) > 0 THEN "accountsChanged" ELSE "accountsChanged:none"
    /\ IF Len(accounts) > 0
       THEN /\ Room(2)
            /\ address' = accounts[1]
            /\ isConnected' = TRUE
            /\ localStorage' = saveConnectionState(address')
            /\ pending' = BothBalances(accounts[1])
            /\ UNCHANGED <<ethBalance, usdcBalance>>
       ELSE /\ address' = ""
            /\ isConnected' = FALSE
            /\ localStorage' = clearConnectionState
            /\ ethBalance' = ""
            /\ usdcBalance' = ""
            /\ UNCHANGED pending
    /\ UNCHANGED <<chainId, isConnecting, error, ambient, check, connect, send, setup,
                   listeners, teardown,
                   isSending, sendEth>>

\* a plausible slip: the balances are refreshed without testing address
ChainChangedAlwaysRefreshes(hex) ==
    /\ listeners # "none"
    /\ nEvents < MaxEvents
    /\ nEvents' = nEvents + 1
    /\ lastEvent' = "chainChanged"
    /\ chainId' = parseInt16(hex)
    /\ Room(2) /\ pending' = BothBalances(address)
    /\ UNCHANGED <<address, isConnected, isConnecting, error, ethBalance,
                   usdcBalance, localStorage, ambient, check, connect, send, setup,
                   listeners, teardown,
                   isSending, sendEth>>

\* the chainChanged handler
ChainChanged(hex) ==
    /\ listeners # "none"
    /\ nEvents < MaxEvents
    /\ nEvents' = nEvents + 1
    /\ lastEvent' = "chainChanged"
    /\ chainId' = parseInt16(hex)
    /\ IF address # ""
       THEN Room(2) /\ pending' = BothBalances(address)
       ELSE UNCHANGED pending
    /\ UNCHANGED <<address, isConnected, isConnecting, error, ethBalance,
                   usdcBalance, localStorage, ambient, check, connect, send, setup,
                   listeners, teardown,
                   isSending, sendEth>>

providerEvents ==
    \/ setupEventListeners
    \/ \E accounts \in AccountLists : AccountsChanged(accounts)
    \/ \E hex \in ChainIdHexes : ChainChanged(hex)

\* ------------------------------------------------------------- teardown
\* the cleanup callback, run when the widget is removed from display: it
\* resolves the provider and registers two further handlers, `() => {}`, with
\* provider.on(...); the handlers setupEventListeners subscribed stay
\* subscribed, the timer is not cancelled and nothing in flight is aborted
cleanup ==
    /\ check.pc # "unmounted"
    /\ teardown = "none"
    /\ teardown' = IF getProvider(ambient) = "none" THEN "noProvider"
                   ELSE getProvider(ambient)
    /\ UNCHANGED <<session, localStorage, ambient, check, connect, send, setup,
                   listeners, pending, nEvents, lastEvent, isSending, sendEth>>

\* ------------------------------------------------------------- specifications
\* the widget as rendered: the mount-time check, the Connect control, the
\* provider events and the balance fetches they start
Next ==
    \/ Mount
    \/ SdkLoads
    \/ checkExistingConnection
    \/ connectWallet
    \/ fetchBalances
    \/ providerEvents

Spec == Init /\ [][Next]_vars

\* the widget with sendTransaction called, without provider events
NextSend ==
    \/ Mount
    \/ SdkLoads
    \/ checkExistingConnection
    \/ connectWallet
    \/ sendTransaction
    \/ fetchBalances

SpecSend == Init /\ [][NextSend]_vars

\* the widget as rendered and then removed from display
NextTeardown ==
    \/ Mount
    \/ SdkLoads
    \/ checkExistingConnection
    \/ connectWallet
    \/ fetchBalances
    \/ providerEvents
    \/ cleanup

SpecTeardown == Init /\ [][NextTeardown]_vars

\* the widget with both send controls used, without provider events
NextSendEth ==
    \/ Mount
    \/ SdkLoads
    \/ checkExistingConnection
    \/ connectWallet
    \/ sendTransaction
    \/ sendEthToSelf
    \/ fetchBalances

SpecSendEth == Init /\ [][NextSendEth]_vars

\* the Connect control clicked again after a call that left the session
\* Disconnected
NextClicks ==
    \/ Mount
    \/ checkExistingConnection
    \/ ConnectClick(MaxClicks)
    \/ ConnectGetProvider
    \/ \E accounts \in AccountLists : ConnectAccounts(accounts)
    \/ \E message \in ErrMessages : ConnectRejected(message)
    \/ \E ok \in BOOLEAN : ConnectEthRead(ok)
    \/ \E ok \in BOOLEAN : ConnectUsdcRead(ok)
    \/ \E hex \in ChainIdHexes \cup {<<>>} : ConnectChainId(hex)
    \/ fetchBalances
    \/ providerEvents

SpecClicks == Init /\ [][NextClicks]_vars

\* ------------------------------------------------------------- a provider that goes
\* the wallet extension is disabled or the page leaves its host: the globals
\* getProvider reads are gone, while provider objects already obtained and
\* the chain client keep answering
ProviderGoes ==
    /\ getProvider(ambient) # "none"
    /\ ambient' = [frameSdk |-> FALSE, frameEthereum |-> FALSE,
                   windowEthereum |-> FALSE, providers |-> 0]
    /\ UNCHANGED <<session, localStorage, check, connect, send, setup, listeners,
                   pending, nEvents, lastEvent, teardown,
                   isSending, sendEth>>

NextFetch ==
    \/ Mount
    \/ ProviderGoes
    \/ checkExistingConnection
    \/ connectWallet
    \/ fetchBalances
    \/ providerEvents

SpecFetch == Init /\ [][NextFetch]_vars

\* ------------------------------------------------------------- the resolver alone
\* every context the resolver can be called in: with or without the host
\* frame, with or without window.ethereum, with or without several wallet
\* extensions offering their providers as a list
ResolverContexts ==
    { [frameSdk |-> f, frameEthereum |-> f, windowEthereum |-> w, providers |-> n] :
        f \in BOOLEAN, w \in BOOLEAN, n \in {0, 2} }

InitResolver ==
    /\ address = ""
    /\ chainId = 0
    /\ isConnected = FALSE
    /\ isConnecting = FALSE
    /\ error = ""
    /\ ethBalance = ""
    /\ usdcBalance = ""
    /\ localStorage \in StoredRecords
    /\ ambient \in ResolverContexts
    /\ check = checkIdle
    /\ connect = connectIdle
    /\ send = sendIdle
    /\ setup = "unmounted"
    /\ listeners = "none"
    /\ pending = EmptyBag
    /\ nEvents = 0
    /\ lastEvent = "none"
    /\ teardown = "none"
    /\ isSending = FALSE
    /\ sendEth = sendEthIdle

\* the page moves between contexts: the host frame appears or goes, a wallet
\* extension is enabled or disabled
AmbientChanges ==
    /\ ambient' \in ResolverContexts \ {ambient}
    /\ UNCHANGED <<session, localStorage, check, connect, send, setup, listeners,
                   pending, nEvents, lastEvent, teardown,
                   isSending, sendEth>>

\* the callers of getProvider up to what they do with its result
NextResolver ==
    \/ Mount
    \/ AmbientChanges
    \/ CheckGetProvider
    \/ ConnectStart
    \/ ConnectGetProvider
    \/ setupEventListeners
    \/ cleanup

SpecResolver == InitResolver /\ [][NextResolver]_vars

\* ------------------------------------------------------------- properties
CheckInFlight == check.pc \notin {"unmounted", "done"}
ConnectInFlight == connect.pc # "idle"

\* the mount-time check is the only operation that has acted on the session
Alone == nEvents = 0 /\ connect.runs = 0 /\ send.runs = 0

Cleared == [walletConnected |-> Null, walletAddress |-> Null]
Persisted(addr) == [walletConnected |-> "true", walletAddress |-> addr]

\* C1: in every reachable state, isConnected is true exactly when address is
\* non-empty.
C1_ConnectedIffAddress == isConnected <=> (address # "")

C1_Witness ==
    /\ isConnected /\ address # ""
    /\ CheckInFlight /\ ConnectInFlight
    /\ lastEvent # "none"
    /\ pending # EmptyBag

\* C2: when connectWallet started during the pending reconnection request and
\* both attempts have finished (no provider event in between), address is what
\* one of the two attempts adopted, or empty, and the persisted record and the
\* stored balances belong to that address.
C2_OneAttempt ==
    (connect.overlap /\ check.pc = "done" /\ connect.pc = "idle" /\ nEvents = 0) =>
        /\ address \in {check.addr, connect.addr, ""}
        /\ isConnected => localStorage = Persisted(address)
        /\ isConnected => ethBalance \in {"", EthStored(address)}
        /\ isConnected => usdcBalance \in {"", UsdcStored(address)}

\* C3: while the mount-time check and a connectWallet call are both between
\* start and completion, no step of either writes address or isConnected.
C3_Serialized ==
    [][ (CheckInFlight /\ ConnectInFlight /\ (check' # check \/ connect' # connect))
            => (address' = address /\ isConnected' = isConnected) ]_vars

\* C4: isConnecting is true from the start of a connectWallet call until the
\* call returns, and false once it has returned, on every exit path.
C4_NoStuckConnecting == isConnecting <=> ConnectInFlight

C4_Witness ==
    /\ connect.pc = "idle" /\ connect.exit = "error" /\ connect.addr # ""
    /\ ~isConnecting

\* C5 as stated: a connectWallet call that has returned wrote
\* isConnecting = false exactly once.
C5_ClearsExactlyOnce ==
    (connect.pc = "idle" /\ connect.exit # "none") => connect.clears = 1

\* C5 amended: a connectWallet call that has returned wrote isConnecting = false
\* once on the empty-result, success and error paths, and twice on the
\* no-provider path (the branch's own write, then the finally block).
C5_ClearsOncePerPath ==
    (connect.pc = "idle" /\ connect.exit # "none") =>
        connect.clears = IF connect.exit = "noProvider" THEN 2 ELSE 1

C5_Witness ==
    connect.pc = "idle" /\ connect.exit = "noProvider" /\ connect.clears = 2

\* C6: an accountsChanged event with an empty list leaves address empty,
\* isConnected false, both balances empty and the persisted record removed,
\* whatever the state before.
C6_Disconnect ==
    [][ (nEvents' = nEvents + 1 /\ lastEvent' = "accountsChanged:none")
            => /\ address' = "" /\ ~isConnected'
               /\ ethBalance' = "" /\ usdcBalance' = ""
               /\ localStorage' = Cleared ]_vars

C6_Witness ==
    /\ lastEvent = "accountsChanged:none"
    /\ check.addr # "" /\ ConnectInFlight
    /\ address = "" /\ ~isConnected /\ ethBalance = "" /\ usdcBalance = ""
    /\ localStorage = Cleared

\* C7: a mount-time check whose eth_accounts query returned at least one
\* account, with no other operation acting, ends connected with the first
\* account as address, that account persisted, both balance fetches and the
\* chain-id query issued, and each balance either still unknown (its read
\* failed) or the adopted account's.
C7_MountAdoptsFirstAccount ==
    (check.pc = "done" /\ check.branch = "accounts" /\ Alone) =>
        /\ isConnected
        /\ address = check.accounts[1]
        /\ localStorage = Persisted(check.accounts[1])
        /\ check.log = <<"eth_accounts", "fetchEthBalance", "fetchUsdcBalance", "eth_chainId">>
        /\ ethBalance \in {"", EthStored(check.accounts[1])}
        /\ usdcBalance \in {"", UsdcStored(check.accounts[1])}
        /\ chainId \in {0} \cup {parseInt16(hex) : hex \in ChainIdHexes}

C7_Witness ==
    /\ check.pc = "done" /\ check.branch = "accounts" /\ Alone
    /\ Len(check.accounts) > 1
    /\ address = "0xb0b" /\ localStorage = Persisted("0xb0b")
    /\ ethBalance = "0.0010" /\ usdcBalance = "1.00" /\ chainId = 8453

\* C8: when the mount-time check finds no provider it returns with lastError
\* set, the session disconnected with empty address, no provider request
\* issued and the persisted record untouched.
C8_MountNoProvider ==
    [][ (check.pc = "getProvider" /\ check'.pc # "getProvider"
            /\ getProvider(ambient) = "none")
            => /\ check'.pc = "done" /\ check'.log = <<>>
               /\ error' # ""
               /\ ~isConnected' /\ address' = ""
               /\ localStorage' = localStorage ]_vars

C8_Witness ==
    /\ check.pc = "done" /\ check.branch = "noProvider" /\ check.log = <<>>
    /\ error = MsgNoProvider /\ ~isConnected /\ address = ""
    /\ localStorage = Persisted("0xa11ce")

\* C9: when eth_accounts returns no account and the persisted record does not
\* hold both the connected flag and a saved address, the check returns without
\* another request and without touching address, isConnected, lastError or
\* the record; with no other operation acting the session is disconnected,
\* address and lastError empty.
C9_FirstVisit ==
    [][ (check.pc = "eth_accounts" /\ check'.pc # "eth_accounts"
            /\ check'.branch \notin {"accounts", "failed"}
            /\ ~(check.wasConnected /\ check.savedAddress \in Accounts))
            => /\ check'.pc = "done" /\ check'.log = check.log
               /\ UNCHANGED <<address, isConnected, error, localStorage>>
               /\ Alone => (~isConnected' /\ address' = "" /\ error' = "") ]_vars

C9_Witness ==
    /\ check.pc = "done" /\ check.branch = "firstVisit"
    /\ check.log = <<"eth_accounts">>
    /\ localStorage.walletConnected = "true" /\ localStorage.walletAddress = Null
    /\ ~isConnected /\ address = "" /\ error = ""

\* C10: when the reconnection request of the mount-time check is rejected,
\* the check returns with lastError set and the persisted record cleared; with
\* no other operation acting the session is disconnected with empty address.
C10_ReconnectDenied ==
    [][ (check.pc = "eth_requestAccounts" /\ check'.pc = "done"
            /\ check'.addr = "")
            => /\ error' # ""
               /\ localStorage' = Cleared
               /\ Alone => (~isConnected' /\ address' = "") ]_vars

C10_Witness ==
    /\ check.pc = "done" /\ check.branch = "reconnectFailed"
    /\ check.log = <<"eth_accounts", "eth_requestAccounts">>
    /\ error = MsgReconnect /\ localStorage = Cleared
    /\ ~isConnected /\ address = ""

\* C11: the reconnection request of the mount-time check, once accepted, makes
\* the saved address the session address, sets isConnected and persists that
\* address; with no other operation acting the saved address is the one of the
\* persisted record, and the check ends connected with it, the record
\* persisted, both balance fetches issued after the two requests, and each
\* balance either still unknown (its read failed) or the saved address's.
C11_ReconnectAdoptsSaved ==
    /\ [][ (check.pc = "eth_requestAccounts" /\ check'.pc # "eth_requestAccounts"
                /\ check'.addr # "")
            => /\ address' = check.savedAddress
               /\ isConnected'
               /\ localStorage' = Persisted(check.savedAddress)
               /\ Alone => localStorage = Persisted(check.savedAddress) ]_vars
    /\ [] ( (check.pc = "done" /\ check.branch = "reconnect" /\ Alone) =>
               /\ isConnected
               /\ address = check.addr
               /\ localStorage = Persisted(check.addr)
               /\ check.log = <<"eth_accounts", "eth_requestAccounts",
                                "fetchEthBalance", "fetchUsdcBalance">>
               /\ ethBalance \in {"", EthStored(check.addr)}
               /\ usdcBalance \in {"", UsdcStored(check.addr)} )

C11_Witness ==
    /\ check.pc = "done" /\ check.branch = "reconnect" /\ Alone
    /\ isConnected /\ address = "0xa11ce" /\ localStorage = Persisted("0xa11ce")
    /\ ethBalance = "1.5000" /\ usdcBalance = "1.23"

\* C12: the mount-time check issues eth_requestAccounts only in the turn in
\* which its eth_accounts query returned, with an empty list, and only when it
\* read both the connected flag and a saved address from the persisted record;
\* a run that took any other branch has issued no eth_requestAccounts, and a
\* run that issued one issued it once, right after eth_accounts.
C12_PromptsOnlyToReconnect ==
    /\ [][ (check'.pc = "eth_requestAccounts" /\ check.pc # "eth_requestAccounts")
            => /\ check.pc = "eth_accounts"
               /\ check.log = <<"eth_accounts">>
               /\ check.wasConnected /\ check.savedAddress \in Accounts
               /\ check'.branch = "reconnect" /\ check'.accounts = <<>>
               /\ UNCHANGED <<address, isConnected, localStorage>> ]_vars
    /\ [] ( /\ check.branch \in {"none", "noProvider", "failed", "firstVisit", "accounts"}
                => \A i \in DOMAIN check.log : check.log[i] # "eth_requestAccounts"
            /\ check.branch \in {"reconnect", "reconnectFailed"}
                => /\ SubSeq(check.log, 1, 2) = <<"eth_accounts", "eth_requestAccounts">>
                   /\ \A i \in DOMAIN check.log :
                          check.log[i] = "eth_requestAccounts" => i = 2 )

C12_Witness ==
    /\ check.pc = "done" /\ check.branch = "firstVisit"
    /\ check.log = <<"eth_accounts">>
    /\ localStorage = [walletConnected |-> Null, walletAddress |-> "0xb0b"]

\* C13: a connectWallet call that finds no provider returns in that turn with
\* the no-provider message in lastError, no provider request issued,
\* isConnecting and isConnected false and address empty.
C13_ConnectNoProvider ==
    [][ (connect.pc = "getProvider" /\ connect'.pc # "getProvider"
            /\ getProvider(ambient) = "none")
            => /\ connect'.pc = "idle" /\ connect'.log = <<>>
               /\ error' = MsgNoProvider /\ error' # ""
               /\ ~isConnecting' /\ ~isConnected' /\ address' = "" ]_vars

C13_Witness ==
    /\ connect.pc = "idle" /\ connect.exit = "noProvider" /\ connect.log = <<>>
    /\ error = MsgNoProvider
    /\ ~isConnecting /\ ~isConnected /\ address = ""

\* the connectWallet call started with nothing else in flight, and no provider
\* event has been delivered
ConnectAlone == connect.alone /\ nEvents = 0

\* C14: a non-empty eth_requestAccounts result makes connectWallet adopt its
\* first account, set isConnected and persist that account; when the call then
\* runs to its end with no concurrent operation, the session is connected
\* with that account, the record persisted, both balance fetches and the
\* chain-id query issued in that order, each balance either still unknown (its
\* read failed) or the account's, chainId a parsed query result (or untouched
\* for a falsy result), lastError empty and isConnecting false.
C14_ConnectAdoptsFirstAccount ==
    /\ [][ (connect.pc = "eth_requestAccounts" /\ connect'.addr # "")
            => /\ address' \in {accounts[1] : accounts \in AccountLists \ {<<>>}}
               /\ connect'.addr = address'
               /\ isConnected'
               /\ localStorage' = Persisted(address') ]_vars
    /\ [] ( (connect.pc = "idle" /\ connect.exit = "success" /\ ConnectAlone) =>
               /\ isConnected /\ ~isConnecting
               /\ address = connect.addr
               /\ localStorage = Persisted(connect.addr)
               /\ connect.log = <<"eth_requestAccounts", "fetchEthBalance",
                                  "fetchUsdcBalance", "eth_chainId">>
               /\ ethBalance \in {"", EthStored(connect.addr)}
               /\ usdcBalance \in {"", UsdcStored(connect.addr)}
               /\ chainId \in {0} \cup {parseInt16(hex) : hex \in ChainIdHexes}
               /\ error = "" )

C14_Witness ==
    /\ connect.pc = "idle" /\ connect.exit = "success" /\ ConnectAlone
    /\ isConnected /\ address = "0xb0b" /\ localStorage = Persisted("0xb0b")
    /\ ethBalance = "0.0010" /\ usdcBalance = "1.00" /\ chainId = 8453
    /\ error = ""

\* C15: a connectWallet call whose eth_requestAccounts result is empty
\* returns in that turn with the no-accounts message in lastError, and no
\* step of the call, from its start to that return, writes address,
\* isConnected or the persisted record.
C15_ConnectNoAccounts ==
    [][ /\ (connect.pc = "eth_requestAccounts" /\ connect'.exit = "empty")
            => /\ connect'.pc = "idle"
               /\ error' = MsgNoAccounts /\ error' # ""
        /\ (connect' # connect /\ connect'.addr = ""
                /\ connect'.exit \in {"none", "empty"})
            => UNCHANGED <<address, isConnected, localStorage>> ]_vars

C15_Witness ==
    /\ connect.pc = "idle" /\ connect.exit = "empty"
    /\ connect.log = <<"eth_requestAccounts">>
    /\ error = MsgNoAccounts
    /\ ~isConnected /\ address = "" /\ localStorage = Persisted("0xa11ce")

\* C16 as stated: a connectWallet call that returned through its catch block
\* (eth_requestAccounts or eth_chainId rejected), with no concurrent
\* operation, leaves lastError set, address empty and the session
\* disconnected.
C16_RejectedResets ==
    (connect.pc = "idle" /\ connect.exit = "error" /\ ConnectAlone) =>
        /\ error # ""
        /\ address = ""
        /\ ~isConnected

\* the two un-awaited balance fetches for one account
Refresh(addr) == SetToBag({Fetch("eth", addr), Fetch("usdc", addr)})

\* C17: whatever the state before, the accountsChanged handler run with a
\* non-empty list sets address to the first account of the list, isConnected
\* to true, the persisted record to that account, and starts one fetch of each
\* balance for that account.
C17_AccountsChangedAdopts ==
    [][ (nEvents' = nEvents + 1 /\ lastEvent' = "accountsChanged")
            => \E accounts \in AccountLists \ {<<>>} :
                  /\ address' = accounts[1]
                  /\ isConnected'
                  /\ localStorage' = Persisted(accounts[1])
                  /\ pending' = pending (+) Refresh(accounts[1]) ]_vars

C17_Witness ==
    /\ lastEvent = "accountsChanged"
    /\ check.addr = "0xa11ce"
    /\ address = "0xb0b" /\ isConnected /\ localStorage = Persisted("0xb0b")
    /\ pending = Refresh("0xb0b")

\* C18: the chainChanged handler sets chainId to the number its hexadecimal
\* argument denotes, starts one fetch of each balance for the current address
\* exactly when address is non-empty, and leaves address, isConnected,
\* lastError and the persisted record as they were.
C18_ChainChanged ==
    [][ (nEvents' = nEvents + 1 /\ lastEvent' = "chainChanged")
            => /\ chainId' \in {1, 8453}
               /\ \E hex \in ChainIdHexes : chainId' = parseInt16(hex)
               /\ pending' = IF address # "" THEN pending (+) Refresh(address)
                             ELSE pending
               /\ UNCHANGED <<address, isConnected, error, localStorage>> ]_vars

C18_Witness ==
    /\ lastEvent = "chainChanged" /\ chainId = 8453
    /\ address = "0xa11ce" /\ pending = Refresh("0xa11ce")
    /\ error # ""

\* C19 as stated: once the cleanup callback has run, a provider event changes
\* no session field and not the persisted record.
C19_DetachedAfterTeardown ==
    [][ (teardown # "none" /\ nEvents' # nEvents)
            => UNCHANGED <<session, localStorage>> ]_vars

\* C20 as stated: once the cleanup callback has run, no completion of a
\* provider request or balance read writes address, isConnected, chainId,
\* either balance, lastError or the persisted record.
C20_LateCompletionsNoOp ==
    [][ (teardown # "none" /\ nEvents' = nEvents)
            => UNCHANGED <<address, isConnected, chainId, ethBalance, usdcBalance,
                           error, localStorage>> ]_vars

\* C21: every call of getProvider, whatever the earlier calls returned, gives
\* the host-frame provider when the host frame offers one (also next to a
\* browser provider), the browser provider when only window.ethereum is
\* there, and reports no provider only when neither is there. The calls are
\* those of setupEventListeners, the cleanup callback, the mount-time check
\* and connectWallet.
C21_ResolverOrder ==
    [][ /\ (setup = "timer" /\ setup' = "done")
            => /\ ambient.frameSdk => listeners' = "frame"
               /\ (~ambient.frameSdk /\ ambient.windowEthereum) => listeners' = "browser"
               /\ listeners' = "none" => (~ambient.frameSdk /\ ~ambient.windowEthereum)
        /\ (teardown = "none" /\ teardown' # "none")
            => /\ ambient.frameSdk => teardown' = "frame"
               /\ (~ambient.frameSdk /\ ambient.windowEthereum) => teardown' = "browser"
               /\ teardown' = "noProvider"
                    => (~ambient.frameSdk /\ ~ambient.windowEthereum)
        /\ (check.pc = "getProvider" /\ check'.pc # "getProvider")
            => /\ (ambient.frameSdk \/ ambient.windowEthereum) => check'.pc = "eth_accounts"
               /\ check'.pc = "done" => (~ambient.frameSdk /\ ~ambient.windowEthereum)
        /\ (connect.pc = "getProvider" /\ connect'.pc # "getProvider")
            => /\ (ambient.frameSdk \/ ambient.windowEthereum)
                    => connect'.pc = "eth_requestAccounts"
               /\ connect'.pc = "idle" => (~ambient.frameSdk /\ ~ambient.windowEthereum)
      ]_vars

C21_Witness ==
    /\ check.branch = "noProvider"
    /\ listeners = "frame" /\ ambient.frameSdk /\ ambient.windowEthereum
    /\ teardown = "none"
    /\ connect.pc = "getProvider"

\* C22 as stated: a call of getProvider made with no host frame and no
\* window.ethereum, while wallet extensions offer a non-empty list of
\* providers, returns the first entry of the list.
C22_FirstOfProviderList ==
    [][ (setup = "timer" /\ setup' = "done"
            /\ ~ambient.frameSdk /\ ~ambient.windowEthereum /\ ambient.providers > 0)
            => listeners' = "injected" ]_vars

\* C23: no balance fetch surfaces a failure or touches anything but its own
\* balance. An un-awaited fetch that settles leaves lastError, address,
\* isConnected, chainId and the persisted record alone, leaves the other
\* balance alone, and its own balance is either as it was (the read failed)
\* or the value read. The same holds for the fetches the mount-time check and
\* connectWallet await, which then go on to their next statement; a fetch
\* that finds no provider changes neither balance and its caller goes on.
C23_FetchFailuresSilent ==
    [][ /\ (pending' # pending /\ nEvents' = nEvents)
            => \E f \in BagToSet(pending) :
                  /\ pending' = pending (-) SetToBag({f})
                  /\ UNCHANGED <<error, address, isConnected, chainId, localStorage>>
                  /\ f.kind = "eth"
                        => /\ usdcBalance' = usdcBalance
                           /\ ethBalance' \in {ethBalance, EthStored(f.addr)}
                  /\ f.kind = "usdc"
                        => /\ ethBalance' = ethBalance
                           /\ usdcBalance' \in {usdcBalance, UsdcStored(f.addr)}
        /\ (check.pc = "ethRead" /\ check' # check)
            => /\ UNCHANGED <<error, address, isConnected, chainId, localStorage,
                              usdcBalance>>
               /\ ethBalance' \in {ethBalance, EthStored(check.addr)}
               /\ check'.pc \in {"usdcRead", "eth_chainId", "done"}
        /\ (check.pc = "usdcRead" /\ check' # check)
            => /\ UNCHANGED <<error, address, isConnected, chainId, localStorage,
                              ethBalance>>
               /\ usdcBalance' \in {usdcBalance, UsdcStored(check.addr)}
               /\ check'.pc \in {"eth_chainId", "done"}
        /\ (connect.pc = "ethRead" /\ connect' # connect)
            => /\ UNCHANGED <<error, address, isConnected, chainId, localStorage,
                              usdcBalance>>
               /\ ethBalance' \in {ethBalance, EthStored(connect.addr)}
               /\ connect'.pc \in {"usdcRead", "eth_chainId"}
        /\ (connect.pc = "usdcRead" /\ connect' # connect)
            => /\ UNCHANGED <<error, address, isConnected, chainId, localStorage,
                              ethBalance>>
               /\ usdcBalance' \in {usdcBalance, UsdcStored(connect.addr)}
               /\ connect'.pc = "eth_chainId"
        /\ (getProvider(ambient) = "none" /\ check.addr = "" /\ check'.addr # "")
            => /\ UNCHANGED <<ethBalance, usdcBalance, error, pending>>
               /\ check'.pc \in {"eth_chainId", "done"}
        /\ (getProvider(ambient) = "none" /\ connect.addr = "" /\ connect'.addr # "")
            => /\ UNCHANGED <<ethBalance, usdcBalance, error, pending>>
               /\ connect'.pc = "eth_chainId"
        /\ (getProvider(ambient) = "none" /\ check.pc = "ethRead")
            => check'.pc # "usdcRead"
        /\ (getProvider(ambient) = "none" /\ connect.pc = "ethRead")
            => connect'.pc # "usdcRead"
        /\ (getProvider(ambient) = "none" /\ nEvents' # nEvents)
            => /\ UNCHANGED <<pending, error>>
               /\ lastEvent' # "accountsChanged:none"
                    => UNCHANGED <<ethBalance, usdcBalance>>
      ]_vars

C23_Witness ==
    /\ lastEvent = "accountsChanged" /\ address = "0xb0b"
    /\ pending = EmptyBag
    /\ ethBalance = EthStored("0xa11ce")
    /\ usdcBalance = UsdcStored("0xb0b")
    /\ getProvider(ambient) = "none"

\* C24: the stored native balance is the wei amount divided by 10^18 and
\* written with 4 fractional digits, the stored token balance the base-unit
\* amount divided by 10^6 and written with 2, both rounded to nearest:
\* 1500000000000000000 wei is stored as "1.5000" and 1234567 base units as
\* "1.23"; 999960000000000 wei as "0.0010" and 996000 base units as "1.00".
C24_BalanceFormat ==
    /\ EthWei("0xa11ce") = <<1,5,0,0,0,0,0,0,0,0,0,0,0,0,0,0,0,0,0>>
    /\ UsdcUnits("0xa11ce") = <<1,2,3,4,5,6,7>>
    /\ EthWei("0xb0b") = <<9,9,9,9,6,0,0,0,0,0,0,0,0,0,0>>
    /\ UsdcUnits("0xb0b") = <<9,9,6,0,0,0>>
    /\ ethBalance \in {"", "1.5000", "0.0010"}
    /\ usdcBalance \in {"", "1.23", "1.00"}
    /\ (Alone /\ ethBalance # "")
          => ethBalance = IF check.addr = "0xa11ce" THEN "1.5000" ELSE "0.0010"
    /\ (Alone /\ usdcBalance # "")
          => usdcBalance = IF check.addr = "0xa11ce" THEN "1.23" ELSE "1.00"

C24_Witness ==
    /\ Alone /\ check.addr = "0xa11ce"
    /\ ethBalance = "1.5000" /\ usdcBalance = "1.23"

\* C25: a balance fetch that settles while the stored balance is already the
\* one a fetch for the same address stored (the chain amounts do not change)
\* leaves that balance, and every other session field, as it was, whether its
\* read succeeds or fails.
C25_FetchIdempotent ==
    [][ (pending' # pending /\ nEvents' = nEvents)
            => \E f \in BagToSet(pending) :
                  /\ pending' = pending (-) SetToBag({f})
                  /\ (f.kind = "eth" /\ ethBalance = EthStored(f.addr))
                        => UNCHANGED <<session, localStorage>>
                  /\ (f.kind = "usdc" /\ usdcBalance = UsdcStored(f.addr))
                        => UNCHANGED <<session, localStorage>> ]_vars

C25_Witness ==
    /\ check.pc = "done" /\ check.addr = "0xb0b" /\ connect.runs = 0
    /\ lastEvent = "chainChanged" /\ address = "0xb0b"
    /\ pending = EmptyBag
    /\ ethBalance = EthStored("0xb0b") /\ usdcBalance = UsdcStored("0xb0b")

\* what a call of sendTransaction has issued
SendIssued(request) == \E i \in DOMAIN send.log : send.log[i] = request

\* C26: a call of sendTransaction made while isConnected is false returns in
\* that turn with lastError set to the not-connected message, having issued
\* no provider request and no transfer, and leaves address, isConnected, both
\* balances and the fetches in flight as they were.
C26_SendNotConnected ==
    [][ (send'.runs = send.runs + 1 /\ ~isConnected)
            => /\ send'.pc = "idle" /\ send'.log = <<>>
               /\ error' = MsgSendNotConnected /\ error' # ""
               /\ UNCHANGED <<address, isConnected, ethBalance, usdcBalance,
                              pending>> ]_vars

C26_Witness ==
    /\ send.runs = 1 /\ send.pc = "idle" /\ send.exit = "notConnected"
    /\ send.log = <<>>
    /\ error = MsgSendNotConnected /\ ~isConnected /\ address = ""
    /\ check.pc = "done"

\* C27: sendTransaction issues eth_requestAccounts only right after its
\* eth_accounts query returned no account; when the query returned accounts
\* the transfer is submitted next, with no eth_requestAccounts; and when the
\* eth_requestAccounts it issued is denied the call returns with the
\* approve-the-connection message in lastError and no transfer submitted.
C27_SendPromptsOnlyWithoutAccounts ==
    /\ [] ( /\ SendIssued("eth_requestAccounts")
                => /\ send.found = "empty"
                   /\ SubSeq(send.log, 1, 2) = <<"eth_accounts", "eth_requestAccounts">>
            /\ send.found = "some"
                => /\ ~SendIssued("eth_requestAccounts")
                   /\ SubSeq(send.log, 1, 2) = <<"eth_accounts", "writeContract">>
            /\ send.exit = "denied"
                => /\ send.log = <<"eth_accounts", "eth_requestAccounts">>
                   /\ ~SendIssued("writeContract") )
    /\ [][ (send.pc = "eth_requestAccounts" /\ send'.pc = "idle")
            => /\ error' = MsgSendApproveConnection /\ error' # ""
               /\ UNCHANGED pending ]_vars

C27_Witness ==
    /\ send.pc = "idle" /\ send.exit = "sent" /\ send.found = "some"
    /\ send.log = <<"eth_accounts", "writeContract", "fetchUsdcBalance">>

\* C28: sendTransaction starts one fetch of the token balance, for the
\* address of that moment, in the turn in which its transfer submission
\* resolved, and starts none on any other exit: not connected, no provider,
\* authorization denied, submission or account query rejected.
C28_SendRefreshesAfterTransfer ==
    /\ [][ send' # send
            => pending' = IF send'.exit = "sent" /\ send.pc = "writeContract"
                          THEN pending (+) SetToBag({Fetch("usdc", address)})
                          ELSE pending ]_vars
    /\ [] ( SendIssued("fetchUsdcBalance") <=> send.exit = "sent" )

C28_Witness ==
    /\ send.pc = "idle" /\ send.exit = "sent" /\ send.found = "empty"
    /\ send.log = <<"eth_accounts", "eth_requestAccounts", "writeContract",
                    "fetchUsdcBalance">>
    /\ pending = SetToBag({Fetch("usdc", address)}) /\ address \in Accounts

\* the messages that tell of a denial by the user or of a missing authorization
IndicatesDenial(message) ==
    message \in {"The requested account and/or method has not been authorized by the user.",
                 "User rejected the request."}

\* C29 as stated: when the transfer submission rejects, lastError is the
\* approve-the-transaction message if the rejection's message tells of a
\* denial by the user or of a missing authorization, and the rejection's
\* message otherwise (a rejection with a message).
C29_SendFailureClassified ==
    [][ (send.pc = "writeContract" /\ send'.exit = "failed" /\ send'.message # "")
            => error' = IF IndicatesDenial(send'.message) THEN MsgSendApprove
                        ELSE send'.message ]_vars

\* C30 as stated: every step in which the mount-time check, connectWallet,
\* sendTransaction or sendEthToSelf ends because a provider or chain-client
\* request of its own rejected (balance reads, which are logged only, aside)
\* leaves lastError set to a non-empty message.
C30_FailuresSurfaced ==
    [][ /\ (~check.rejected /\ check'.rejected) => error' # ""
        /\ (connect.pc # "idle" /\ connect'.exit = "error") => error' # ""
        /\ (send.pc # "idle" /\ send'.exit \in {"denied", "failed"}) => error' # ""
        /\ (sendEth.pc # "idle" /\ sendEth'.exit \in {"failed", "noProvider"})
            => error' # "" ]_vars

\* C31: every step that makes the session Connected is the step in which the
\* live provider answered successfully: eth_accounts resolved with a
\* non-empty list, the reconnection or connectWallet authorization resolved,
\* or a non-empty accountsChanged event was delivered. The persisted record
\* alone never does it.
C31_ConnectedOnlyByProvider ==
    [][ (~isConnected /\ isConnected') =>
          \/ /\ check.pc = "eth_accounts"
             /\ check'.branch = "accounts" /\ check'.accounts # <<>>
          \/ /\ check.pc = "eth_requestAccounts"
             /\ check'.pc # "eth_requestAccounts" /\ ~check'.rejected
          \/ /\ connect.pc = "eth_requestAccounts"
             /\ connect.addr = "" /\ connect'.addr # ""
          \/ /\ nEvents' = nEvents + 1
             /\ lastEvent' = "accountsChanged" ]_vars

\* Connected through the reconnection branch, which the persisted record opened
C31_Witness ==
    /\ isConnected
    /\ check.branch = "reconnect" /\ check.addr # ""
    /\ connect.runs = 0 /\ nEvents = 0

\* C32 as stated: a sendTransaction call that gets as far as looking for a
\* provider takes the one getProvider resolves in the same context (the host
\* frame's, else the browser's), and reports a missing provider only when
\* getProvider would find none.
C32_SendUsesResolver ==
    [][ (send.runs' = send.runs + 1 /\ isConnected) =>
          /\ getProvider(ambient) = "frame" => send'.provider = "frame.ethereum"
          /\ getProvider(ambient) = "browser" => send'.provider = "browser"
          /\ send'.exit = "noProvider" <=> getProvider(ambient) = "none" ]_vars

\* C33 as stated: whenever the session is Connected and neither the mount-time
\* check nor connectWallet is in flight, the persisted record is
\* {walletConnected: 'true', walletAddress: address}.
C33_RecordMatchesSession ==
    (isConnected /\ ~CheckInFlight /\ ~ConnectInFlight)
        => localStorage = Persisted(address)

\* C34 as stated: in no reachable state are isConnecting and isConnected both
\* true.
C34_SingleStatus == ~(isConnecting /\ isConnected)

\* C34 amended: isConnecting and isConnected are both true only while a
\* connectWallet call is in flight and an account has been adopted. The
\* overlap begins with an adoption during the call and ends with the finally
\* block (the session stays Connected) or with an empty accountsChanged event,
\* so with no connectWallet call in flight the two are never both true.
C34_OverlapOnlyDuringConnect ==
    /\ []((isConnecting /\ isConnected) => (ConnectInFlight /\ address # ""))
    /\ [][ ((~(isConnecting /\ isConnected) /\ isConnecting' /\ isConnected')
              => (isConnecting /\ ~isConnected /\ address' # ""))
           /\
           ((isConnecting /\ isConnected /\ ~(isConnecting' /\ isConnected'))
              => ((connect'.pc = "idle" /\ ~isConnecting' /\ isConnected')
                  \/ (lastEvent' = "accountsChanged:none" /\ isConnecting'
                      /\ ~isConnected'))) ]_vars

\* connectWallet has adopted an account and awaits its balance
C34_Witness ==
    /\ isConnecting /\ isConnected
    /\ connect.pc = "ethRead" /\ connect.addr = address

\* C35: a connectWallet call starts only when no connectWallet call is in
\* flight, also when the control is clicked again after an earlier call, and
\* whatever the mount-time check and the provider events do in between.
C35_OneConnectInFlight ==
    [][ connect'.runs > connect.runs
            => (connect.pc = "idle" /\ ~isConnecting /\ ~isConnected) ]_vars

\* a second call in flight after the first one has finished
C35_Witness ==
    /\ connect.runs = 2
    /\ ConnectInFlight /\ connect.pc = "eth_requestAccounts"

\* C36 as stated: in every reachable state with address empty, ethBalance and
\* usdcBalance are empty.
C36_NoBalanceWhenDisconnected ==
    address = "" => (ethBalance = "" /\ usdcBalance = "")

\* C37 as stated: with the session Connected and no balance fetch in flight
\* (none un-awaited, none awaited by the mount-time check or connectWallet),
\* each stored balance is empty or the one read for the current address.
C37_BalancesOfCurrentAddress ==
    (address # "" /\ pending = EmptyBag /\ ~CheckInFlight /\ ~ConnectInFlight)
        => /\ ethBalance \in {"", EthStored(address)}
           /\ usdcBalance \in {"", UsdcStored(address)}

\* C38 as stated: once the cleanup callback has run, the listener setup
\* subscribes no handler: the provider the handlers are subscribed on stays
\* as it was at teardown.
C38_NoSubscriptionAfterTeardown ==
    [][ teardown # "none" => listeners' = listeners ]_vars

\* C39 as stated: with the mount-time check finished and no connectWallet
\* call and no balance fetch in flight, chainId is 0 exactly when the session
\* is Disconnected.
C39_ChainIdIffConnected ==
    (check.pc = "done" /\ ~ConnectInFlight /\ pending = EmptyBag)
        => (chainId = 0 <=> ~isConnected)

\* the accounts the live provider has reported to the mount-time check and to
\* connectWallet as the first entry of a result
ReportedToRequests ==
    {a \in Accounts : \/ (check.accounts # <<>> /\ a = check.accounts[1])
                      \/ a = check.reported
                      \/ a = connect.addr}

\* C40 as stated, for a session no provider event has reached: whenever the
\* session is Connected, address is an account the live provider returned as
\* the first entry of an account query or authorization result.
C40_AddressReportedByProvider ==
    (isConnected /\ nEvents = 0) => address \in ReportedToRequests

====
